---- MODULE Spec2Model ----
(***************************************************************************)
(* Model of the staging derive: staging_core's derive_checker, which     *)
(* turns a record description into a staging struct and a TryFrom          *)
(* conversion, the run of that generated conversion on a staging value,    *)
(* and the named_struct example built on top of it.                        *)
(***************************************************************************)
EXTENDS Integers, Sequences, FiniteSets, TLC

VARIABLES
    pc,         \* where the program is: derive, derived, try_from, take, done, parse_error
    input,      \* the derive input handed to derive_checker
    tokens,     \* what derive_checker returned
    origin,     \* how the staging value was built: none, hand, from_str
    line,       \* the text handed to Args::from_str (example only)
    checker,    \* the staging value moved into try_from
    errors,     \* the local __errors of try_from
    locals,     \* the Option locals bound by the take_error statements
    idx,        \* the next take_error statement of try_from
    collected,  \* the sequence handed to the reduction (FromIterator::from_iter)
    result      \* what try_from (or Args::from_str) returned

vars == <<pc, input, tokens, origin, line, checker, errors, locals, idx, collected, result>>

----------------------------------------------------------------------------
(* Bounds of the model. *)

\* Longest field list of a derive input.
MaxFields == 2
\* Longest additional_errors vector of a hand-built staging value.
MaxAdditional == 2

----------------------------------------------------------------------------
(* Sequences. *)

Range(s) == {s[i] : i \in DOMAIN s}

SeqsUpTo(S, n) == UNION {[1..k -> S] : k \in 0..n}

IsInjective(s) == \A i, j \in DOMAIN s : s[i] = s[j] => i = j

Count(e, s) == Cardinality({i \in DOMAIN s : s[i] = e})

----------------------------------------------------------------------------
(* The example's enum Error. *)

MkError(t, k, es) == [tag |-> t, kind |-> k, errors |-> es]

Parse(pe) == MkError("Parse", pe, <<>>)
InvalidName == MkError("InvalidName", "", <<>>)
NameAgeMismatch == MkError("NameAgeMismatch", "", <<>>)
AgeTooHigh == MkError("AgeTooHigh", "", <<>>)
Multiple(es) == MkError("Multiple", "", es)

\* Placeholder in the unused arm of a Result or Option.
NoError == MkError("", "", <<>>)

\* impl FromIterator<Error> for Error, always wrapping.
FromIter_AlwaysWrap(es) == Multiple(es)

\* impl FromIterator<Error> for Error.
FromIter(es) == IF Len(es) = 1 THEN es[1] ELSE Multiple(es)

----------------------------------------------------------------------------
(* Result<T, E> and Option<T>. *)

Ok(v) == [ok |-> TRUE, value |-> v, err |-> NoError]
Err(e) == [ok |-> FALSE, value |-> 0, err |-> e]

Some(v) == [some |-> TRUE, value |-> v]
None == [some |-> FALSE, value |-> 0]

----------------------------------------------------------------------------
(* Derive inputs. *)

\* Identifiers a field may carry; NoIdent is the None of a tuple field.
FieldNames == {"name", "age", "id"}
NoIdent == ""

MkInput(shape, fields, has_error, additional) ==
    [shape |-> shape, fields |-> fields, has_error |-> has_error,
     additional_errors |-> additional]

\* #[derive(Staging)] #[staging(error = Error, additional_errors)] struct Args
ArgsInput == MkInput("struct", <<"name", "age">>, TRUE, TRUE)

Inputs ==
    {MkInput("struct", fs, e, a) :
        fs \in SeqsUpTo(FieldNames, MaxFields), e \in BOOLEAN, a \in BOOLEAN}
    \cup {MkInput("struct", [i \in 1..n |-> NoIdent], TRUE, a) :
        n \in 1..MaxFields, a \in BOOLEAN}
    \cup {MkInput("enum", <<>>, TRUE, a) : a \in BOOLEAN}

----------------------------------------------------------------------------
(* derive_checker: the generated items, as data. *)

NoTokens ==
    [kind |-> "none", msg |-> "", struct_fields |-> <<>>,
     errors_decl |-> FALSE, take_errors |-> <<>>, initializers |-> <<>>]

\* No items: a darling error written out (kind "error") or a panic of the
\* macro (kind "panic"), with its message.
Failed(kind, msg) == [NoTokens EXCEPT !.kind = kind, !.msg = msg]

\* Receiver::to_tokens: one field_decl, take_error and initializer per field,
\* in declaration order; errors_decl when additional_errors is present.
\* An enum panics in take_struct().expect, a field without an identifier
\* panics while its statements are built.
ToTokens(inp) ==
    IF inp.shape # "struct" THEN Failed("panic", "Only structs are supported")
    ELSE IF \E i \in DOMAIN inp.fields : inp.fields[i] = NoIdent
         THEN Failed("panic", "Unnamed fields not supported")
    ELSE [kind |-> "ok",
          msg |-> "",
          struct_fields |-> inp.fields,
          errors_decl |-> inp.additional_errors,
          take_errors |-> inp.fields,
          initializers |-> inp.fields]

\* try_derive_checker that refuses a repeated field name.
TryDeriveChecker_RejectDuplicate(inp) ==
    IF ~inp.has_error THEN Failed("error", "Missing field error")
    ELSE IF ~IsInjective(inp.fields) THEN Failed("error", "DuplicateField")
    ELSE ToTokens(inp)

\* try_derive_checker that refuses an empty field list.
TryDeriveChecker_RejectEmpty(inp) ==
    IF ~inp.has_error THEN Failed("error", "Missing field error")
    ELSE IF inp.fields = <<>> THEN Failed("error", "UnsupportedShape")
    ELSE ToTokens(inp)

\* try_derive_checker: Receiver::from_derive_input fails only on the missing
\* error attribute; the receiver is then turned into tokens.
TryDeriveChecker(inp) ==
    IF ~inp.has_error THEN Failed("error", "Missing field error")
    ELSE ToTokens(inp)

\* The generated items compile: Rust refuses a struct that declares a field
\* name twice.
Compiles(tok) == tok.kind = "ok" /\ IsInjective(tok.struct_fields)

----------------------------------------------------------------------------
(* Staging values built by hand. *)

Values == {1, 2}
FieldErrorPool == {InvalidName, AgeTooHigh, Multiple(<<>>)}
AdditionalPool == {NameAgeMismatch, InvalidName}

Outcomes == {Ok(v) : v \in Values} \cup {Err(e) : e \in FieldErrorPool}

NoChecker == [fields |-> <<>>, additional_errors |-> <<>>]

\* Every value of the generated staging struct: one Result per declared
\* field, and the additional_errors vector when it is declared.
StagingValues(tok) ==
    {[fields |-> fs, additional_errors |-> ae] :
        fs \in [Range(tok.struct_fields) -> Outcomes],
        ae \in IF tok.errors_decl THEN SeqsUpTo(AdditionalPool, MaxAdditional)
               ELSE {<<>>}}

----------------------------------------------------------------------------
(* Text, as the example's from_str reads it: a sequence of characters. *)

Lowercase ==
    {"a", "b", "c", "d", "e", "f", "g", "h", "i", "j", "k", "l", "m",
     "n", "o", "p", "q", "r", "s", "t", "u", "v", "w", "x", "y", "z"}

Whitespace == {" ", "\t"}

Digits == {"0", "1", "2", "3", "4", "5", "6", "7", "8", "9"}

DigitValue(c) ==
    CASE c = "0" -> 0 [] c = "1" -> 1 [] c = "2" -> 2 [] c = "3" -> 3
      [] c = "4" -> 4 [] c = "5" -> 5 [] c = "6" -> 6 [] c = "7" -> 7
      [] c = "8" -> 8 [] c = "9" -> 9

\* s.split(','): the parts between commas, empty parts included.
RECURSIVE SplitFrom(_, _, _)
SplitFrom(s, cur, acc) ==
    IF s = <<>> THEN Append(acc, cur)
    ELSE IF Head(s) = "," THEN SplitFrom(Tail(s), <<>>, Append(acc, cur))
    ELSE SplitFrom(Tail(s), Append(cur, Head(s)), acc)

Split(s) == SplitFrom(s, <<>>, <<>>)

RECURSIVE TrimStart(_)
TrimStart(s) ==
    IF s # <<>> /\ Head(s) \in Whitespace THEN TrimStart(Tail(s)) ELSE s

RECURSIVE TrimEnd(_)
TrimEnd(s) ==
    IF s # <<>> /\ s[Len(s)] \in Whitespace
    THEN TrimEnd(SubSeq(s, 1, Len(s) - 1)) ELSE s

\* str::trim
Trim(s) == TrimEnd(TrimStart(s))

\* u32::MAX is 4294967295 = U32MaxDiv10 * 10 + U32MaxMod10.
U32MaxDiv10 == 429496729
U32MaxMod10 == 5

\* The digit loop of str::parse::<u32>: a character that is no digit is
\* InvalidDigit, a value above u32::MAX is PosOverflow.
RECURSIVE ParseDigits(_, _)
ParseDigits(s, acc) ==
    IF s = <<>> THEN Ok(acc)
    ELSE IF Head(s) \notin Digits THEN Err("InvalidDigit")
    ELSE IF acc > U32MaxDiv10
            \/ (acc = U32MaxDiv10 /\ DigitValue(Head(s)) > U32MaxMod10)
         THEN Err("PosOverflow")
    ELSE ParseDigits(Tail(s), acc * 10 + DigitValue(Head(s)))

\* str::parse::<u32>: empty text is Empty, one leading '+' is allowed, a
\* sign alone is InvalidDigit.
ParseU32(s) ==
    IF s = <<>> THEN Err("Empty")
    ELSE IF s = <<"+">> \/ s = <<"-">> THEN Err("InvalidDigit")
    ELSE IF Head(s) = "+" THEN ParseDigits(Tail(s), 0)
    ELSE ParseDigits(s, 0)

Mildred == <<"M", "i", "l", "d", "r", "e", "d">>

\* The name of ArgsStaging::from_str: empty or starting in lowercase is
\* InvalidName.
ParseName(n) ==
    IF n = <<>> THEN Err(InvalidName)
    ELSE IF Head(n) \in Lowercase THEN Err(InvalidName)
    ELSE Ok(n)

\* The oldest age from_str accepts.
MaxAge == 150
\* Below this age a Mildred is a mismatch.
MildredMinAge == 80

\* The age of ArgsStaging::from_str: trimmed, parsed as u32, at most 150.
ParseAge(a) ==
    LET parsed == ParseU32(Trim(a)) IN
    IF ~parsed.ok THEN Err(Parse(parsed.err))
    ELSE IF parsed.value > MaxAge THEN Err(AgeTooHigh)
    ELSE Ok(parsed.value)

\* ArgsStaging::from_str: Err(TooFewParts) below two parts, else the staging
\* value with the cross-field check in additional_errors.
ArgsStagingFromStr(s) ==
    LET parts == Split(s) IN
    IF Len(parts) < 2 THEN Err("TooFewParts")
    ELSE
        LET name == ParseName(parts[1])
            age == ParseAge(parts[2])
            additional_errors ==
                IF name.ok /\ age.ok /\ name.value = Mildred
                    /\ age.value < MildredMinAge
                THEN <<NameAgeMismatch>> ELSE <<>>
        IN [ok |-> TRUE,
            value |-> [fields |-> [f \in {"name", "age"} |->
                                     IF f = "name" THEN name ELSE age],
                       additional_errors |-> additional_errors],
            err |-> ""]

----------------------------------------------------------------------------
(* The lines the example is run on. *)

NameTexts ==
    {<<>>, <<"B", "o", "b">>, <<"b", "o", "b">>, <<"A", "l", "i", "c", "e">>,
     <<"c", "h", "a", "r", "l", "i", "e">>, Mildred, <<" ", "B", "o", "b">>}

AgeTexts ==
    {<<"3", "0">>, <<"2", "5">>, <<"2", "0", "0">>,
     <<"t", "h", "i", "r", "t", "y">>, <<"7", "0">>, <<"8", "5">>,
     <<" ", "7", "0", " ">>, <<>>, <<"+", "7">>, <<"-", "5">>, <<"+">>,
     <<"1", "5", "0">>, <<"1", "5", "1">>, <<"8", "0">>, <<"7", "9">>,
     <<"4", "2", "9", "4", "9", "6", "7", "2", "9", "6">>,
     <<"9", "9", "9", "9", "9", "9", "9", "9", "9", "9", "9">>}

Lines ==
    {n \o <<",">> \o a \o t :
        n \in NameTexts, a \in AgeTexts, t \in {<<>>, <<",", "x">>}}
    \cup {<<>>, <<"B", "o", "b">>}

----------------------------------------------------------------------------
(* The generated conversion, statement by statement. *)

NoResult == [kind |-> "none", record |-> <<>>, error |-> NoError]
NotCollected == [called |-> FALSE, arg |-> <<>>]

\* errors_init that never reads the staging value.
ErrorsInit_AlwaysNew(tok, chk) == <<>>

\* errors_init: checker.additional_errors when the field is declared, else
\* Vec::new().
ErrorsInit(tok, chk) ==
    IF tok.errors_decl THEN chk.additional_errors ELSE <<>>

\* __errors.push(err) that puts the error first.
Push_Front(es, e) == <<e>> \o es

\* __errors.push(err) that is left out.
Push_Dropped(es, e) == es

\* __errors.push(err)
Push(es, e) == Append(es, e)

\* !__errors.is_empty() that lets a lone error through.
HasErrors_MoreThanOne(es) == Len(es) > 1

\* !__errors.is_empty()
HasErrors(es) == es # <<>>

\* An initializer that reads the first field's local for every field.
Initializer_FirstField(tok, loc, f) == loc[tok.initializers[1]]

\* initializer: #ident: #ident.unwrap() reads the local of its own field.
Initializer(tok, loc, f) == loc[f]

\* Ok(#ident { #(#initializers),* }): a None local makes unwrap panic.
BuildRecord(tok, loc) ==
    IF \E i \in DOMAIN tok.initializers :
           ~Initializer(tok, loc, tok.initializers[i]).some
    THEN [NoResult EXCEPT !.kind = "panic"]
    ELSE [kind |-> "Ok",
          record |-> [f \in Range(tok.initializers) |->
                         Initializer(tok, loc, f).value],
          error |-> NoError]

----------------------------------------------------------------------------
(* The program. *)

Init ==
    /\ pc = "derive"
    /\ input \in Inputs
    /\ tokens = NoTokens
    /\ origin = "none"
    /\ line = <<>>
    /\ checker = NoChecker
    /\ errors = <<>>
    /\ locals = <<>>
    /\ idx = 1
    /\ collected = NotCollected
    /\ result = NoResult

\* derive_checker runs on the derive input.
Derive ==
    /\ pc = "derive"
    /\ tokens' = TryDeriveChecker(input)
    /\ pc' = "derived"
    /\ UNCHANGED <<input, origin, line, checker, errors, locals, idx, collected, result>>

\* The application fills a staging value by hand and calls try_from.
Construct ==
    /\ pc = "derived"
    /\ Compiles(tokens)
    /\ \E chk \in StagingValues(tokens) : checker' = chk
    /\ origin' = "hand"
    /\ pc' = "try_from"
    /\ UNCHANGED <<input, tokens, line, errors, locals, idx, collected, result>>

\* The example: Args::from_str parses a line into ArgsStaging and calls
\* try_from, or returns the parse error.
FromStr ==
    /\ pc = "derived"
    /\ Compiles(tokens)
    /\ input = ArgsInput
    /\ \E s \in Lines :
        LET staging == ArgsStagingFromStr(s) IN
        /\ line' = s
        /\ IF staging.ok
           THEN /\ checker' = staging.value
                /\ pc' = "try_from"
                /\ result' = result
           ELSE /\ checker' = checker
                /\ pc' = "parse_error"
                /\ result' = [kind |-> "Err", record |-> <<>>,
                              error |-> Parse(staging.err)]
    /\ origin' = "from_str"
    /\ UNCHANGED <<input, tokens, errors, locals, idx, collected>>

\* let mut __errors = #errors_init;
InitErrors ==
    /\ pc = "try_from"
    /\ errors' = ErrorsInit(tokens, checker)
    /\ idx' = 1
    /\ pc' = "take"
    /\ UNCHANGED <<input, tokens, origin, line, checker, locals, collected, result>>

\* The next take_error statement: the field's value into a Some local, or
\* its error onto __errors and a None local.
TakeError ==
    /\ pc = "take"
    /\ idx <= Len(tokens.take_errors)
    /\ LET f == tokens.take_errors[idx]
           outcome == checker.fields[f]
       IN IF outcome.ok
          THEN /\ locals' = (f :> Some(outcome.value)) @@ locals
               /\ errors' = errors
          ELSE /\ locals' = (f :> None) @@ locals
               /\ errors' = Push(errors, outcome.err)
    /\ idx' = idx + 1
    /\ UNCHANGED <<pc, input, tokens, origin, line, checker, collected, result>>

\* After the last take_error: the collected errors as Err, or the record.
Finish ==
    /\ pc = "take"
    /\ idx > Len(tokens.take_errors)
    /\ IF HasErrors(errors)
       THEN /\ collected' = [called |-> TRUE, arg |-> errors]
            /\ result' = [kind |-> "Err", record |-> <<>>,
                          error |-> FromIter(errors)]
       ELSE /\ collected' = collected
            /\ result' = BuildRecord(tokens, locals)
    /\ pc' = "done"
    /\ UNCHANGED <<input, tokens, origin, line, checker, errors, locals, idx>>

Next == Derive \/ Construct \/ FromStr \/ InitErrors \/ TakeError \/ Finish

Spec == Init /\ [][Next]_vars

----------------------------------------------------------------------------
(* What the claims speak of. *)

\* The staging value's unassociated errors: none when the field is not
\* collected.
Additional ==
    IF input.additional_errors THEN checker.additional_errors ELSE <<>>

Failing(f) == ~checker.fields[f].ok

FailingFields == {i \in DOMAIN input.fields : Failing(input.fields[i])}

AllFieldsOk == FailingFields = {}

\* The errors of the failing fields among the first n declared fields, in
\* declaration order.
RECURSIVE FieldErrorsUpTo(_)
FieldErrorsUpTo(n) ==
    IF n = 0 THEN <<>>
    ELSE IF Failing(input.fields[n])
         THEN Append(FieldErrorsUpTo(n - 1), checker.fields[input.fields[n]].err)
         ELSE FieldErrorsUpTo(n - 1)

FieldErrors == FieldErrorsUpTo(Len(input.fields))

\* try_from has returned (a parse failure of the example ends in parse_error).
Returned == pc = "done"

\* C1: when try_from fails, the sequence handed to the reduction is exactly
\* the additional errors in their order (none when they are not collected)
\* followed by the failing fields' errors in declaration order.
Thm_C1 ==
    (Returned /\ result.kind = "Err")
        => collected.called /\ collected.arg = Additional \o FieldErrors

\* Two different unassociated errors and two fields failing with different
\* errors were handed over as [u1, u2, f1, f2].
Witness_C1 ==
    /\ Returned /\ result.kind = "Err"
    /\ Len(Additional) = 2 /\ Additional[1] # Additional[2]
    /\ Len(input.fields) = 2 /\ Cardinality(FailingFields) = 2
    /\ FieldErrors[1] # FieldErrors[2]
    /\ collected.arg =
          <<Additional[1], Additional[2], FieldErrors[1], FieldErrors[2]>>

\* C2: no error is dropped or duplicated: whenever a field fails or an
\* unassociated error is present, the reduction is handed a sequence whose
\* length is the number of failing fields plus the number of unassociated
\* errors, and in which each error value occurs as often as it does among
\* the failing fields and the unassociated errors together.
Thm_C2 ==
    (Returned /\ (~AllFieldsOk \/ Additional # <<>>))
        => /\ collected.called
           /\ Len(collected.arg) = Cardinality(FailingFields) + Len(Additional)
           /\ \A e \in Range(collected.arg) \cup Range(Additional)
                        \cup Range(FieldErrors) :
                 Count(e, collected.arg) =
                     Count(e, Additional)
                     + Cardinality({i \in FailingFields :
                                      checker.fields[input.fields[i]].err = e})

\* The same error value came once as an unassociated error and once from a
\* failing field, and reached the reduction twice.
Witness_C2 ==
    /\ Returned /\ collected.called
    /\ \E e \in Range(collected.arg) :
          /\ Count(e, Additional) = 1
          /\ Cardinality({i \in FailingFields :
                            checker.fields[input.fields[i]].err = e}) = 1
          /\ Count(e, collected.arg) = 2

\* The record try_from returned holds every field's staged value.
RecordMatches ==
    /\ result.kind = "Ok"
    /\ DOMAIN result.record = Range(input.fields)
    /\ \A f \in Range(input.fields) :
          result.record[f] = checker.fields[f].value

\* C3 as stated: whenever every field outcome is a success, try_from
\* succeeds with the staged values and the reduction is not invoked (stated
\* for the records the claim has in mind, those with at least one field).
Orig_C3 ==
    (Returned /\ input.fields # <<>> /\ AllFieldsOk)
        => (RecordMatches /\ ~collected.called)

\* C3 as amended: whenever every field outcome is a success and no
\* unassociated error is collected, try_from succeeds with the staged
\* values and the reduction is not invoked.
Thm_C3 ==
    (Returned /\ AllFieldsOk /\ Additional = <<>>)
        => (RecordMatches /\ ~collected.called)

\* Two fields staged with different values came back in the record.
Witness_C3 ==
    /\ Returned /\ AllFieldsOk /\ Additional = <<>>
    /\ Len(input.fields) = 2
    /\ checker.fields[input.fields[1]].value
          # checker.fields[input.fields[2]].value
    /\ RecordMatches

\* C4: with exactly one failing field and no unassociated error, try_from
\* fails with that field's own error, not with a Multiple around it.
Thm_C4 ==
    (Returned /\ Cardinality(FailingFields) = 1 /\ Additional = <<>>)
        => /\ result.kind = "Err"
           /\ result.error = FieldErrors[1]
           /\ result.error # Multiple(<<FieldErrors[1]>>)

\* The second of two fields failed alone and its error came back.
Witness_C4 ==
    /\ Returned /\ FailingFields = {2} /\ Additional = <<>>
    /\ Len(input.fields) = 2
    /\ result.kind = "Err"
    /\ result.error = checker.fields[input.fields[2]].err

\* C5: when unassociated errors are collected and present, try_from fails
\* and builds no record; if every field succeeded the reduction is handed
\* exactly the unassociated errors, and a single one comes back as itself.
Thm_C5 ==
    (Returned /\ input.additional_errors /\ checker.additional_errors # <<>>)
        => /\ result.kind = "Err"
           /\ result.record = <<>>
           /\ AllFieldsOk =>
                 /\ collected.called
                 /\ collected.arg = checker.additional_errors
                 /\ Len(checker.additional_errors) = 1
                       => result.error = checker.additional_errors[1]

\* The example's "Mildred,70": both fields parsed, the cross-field check
\* added NameAgeMismatch, and that error came back.
Witness_C5 ==
    /\ Returned /\ origin = "from_str" /\ AllFieldsOk
    /\ checker.additional_errors = <<NameAgeMismatch>>
    /\ result.kind = "Err" /\ result.error = NameAgeMismatch

\* The derive input is a struct of named fields, two of which share a name.
HasDuplicate ==
    /\ input.shape = "struct"
    /\ NoIdent \notin Range(input.fields)
    /\ ~IsInjective(input.fields)

IsEmptyStruct ==
    input.shape = "struct" /\ input.fields = <<>> /\ input.has_error

AllTaken == pc = "take" /\ idx > Len(tokens.take_errors)

\* C9: once every field is processed with __errors empty, every field's
\* local is a Some, and try_from never panics on an unwrap.
Thm_C9 ==
    /\ (AllTaken /\ errors = <<>>)
          => \A f \in Range(tokens.initializers) :
                f \in DOMAIN locals /\ locals[f].some
    /\ result.kind # "panic"

\* Two fields were processed and __errors is empty before the record is
\* built.
Witness_C9 ==
    /\ AllTaken /\ errors = <<>>
    /\ Len(tokens.initializers) = 2
    /\ \A f \in Range(tokens.initializers) : locals[f].some

====
